---- MODULE Spec2Model ----
(***************************************************************************)
(* isomorphic-sqlite: the per-session operation queue of Database          *)
(* (src/src/database.ts) and the nested transaction / savepoint state      *)
(* machine of BaseDatabase (src/src/abstract/base-database.ts), run        *)
(* against a SQLite connection.                                            *)
(*                                                                         *)
(* Every `await` of the source is a scheduling point: the code up to the   *)
(* next await is one action, and any other ready continuation may run      *)
(* between two actions. The engine (better-sqlite3 / node:sqlite /         *)
(* bun:sqlite) is synchronous: a statement takes effect when it is called. *)
(***************************************************************************)
EXTENDS Integers, Sequences, FiniteSets, TLC

\* ------------------------------------------------------------------ bounds
MaxOps == 2        \* operations submitted to the session
MaxTx == 1         \* of which transaction attempts
MaxNested == 2     \* nested transaction attempts started by bodies
MaxWrites == 1     \* INSERT statements made through the tx handle
MaxCalls == 2      \* calls of run() on prepared statement handles

Attempts == 1..(MaxTx + MaxNested)

\* the public methods of Database that the model submits
Kinds == {"run", "bad", "begin", "commit", "rollback", "tx", "close", "raw", "backup"}

\* the value the body of attempt a throws when it fails: an Error object or a
\* string (transaction.test.ts); the code never inspects it
ErrVal(a) == IF a % 2 = 1 THEN "My custom error" ELSE "a string error"
InitErr == "Unknown driver: unknown"
SqlErr == "SqliteError"
\* the variants of a transactional function: fn(...), fn.deferred(...),
\* fn.immediate(...), fn.exclusive(...)
Modes == {"", "DEFERRED", "IMMEDIATE", "EXCLUSIVE"}
UnsupportedErr == "Database backup is not supported by this driver."
NoErr == "none"

VARIABLES
  init,      \* state of the createDb promise: "pending", "ok", "failed"
  ops,       \* the operations submitted so far, in submission order
  elog,      \* ids of the operations in the order of their first engine call
  depth,     \* BaseDatabase.#transactionDepth
  isClosed,  \* BaseDatabase.#isClosed
  eng,       \* the SQLite connection: open flag, frame stack, committed rows
  att,       \* the transaction attempts (activations of createTransactional)
  cfg,       \* the call of createDb: its inputs, and its result once it settled
  sessB,     \* a second Database on a connection of its own
  stcalls    \* the calls made on prepared statement handles, in call order

vars == <<init, ops, elog, depth, isClosed, eng, att, cfg, sessB, stcalls>>

\* --------------------------------------------------------------- the engine
\* `isomorphic_sqlite_${depth}`
savepointName(d) == "isomorphic_sqlite_" \o ToString(d)

Stmt(verb, arg) == [verb |-> verb, arg |-> arg]

Frame(name) == [name |-> name, rows |-> {}, undone |-> FALSE]

RECURSIVE RowsOf(_)
RowsOf(stack) ==
  IF stack = <<>> THEN {} ELSE stack[Len(stack)].rows \cup RowsOf(SubSeq(stack, 1, Len(stack) - 1))

\* rows a statement of this connection can see
Visible(e) == e.committed \cup RowsOf(e.stack)

\* position of the innermost savepoint with this name, 0 when there is none
Innermost(stack, name) ==
  LET hits == {i \in 1..Len(stack) : stack[i].name = name}
  IN IF hits = {} THEN 0 ELSE CHOOSE i \in hits : \A j \in hits : j <= i

\* a row with n = 0 violates a deferred foreign key (foreign keys are enabled
\* by createDb): the INSERT succeeds inside a transaction, the COMMIT does not
Violating(e) == \E r \in RowsOf(e.stack) : r.n = 0

Ok(e) == [ok |-> TRUE, eng |-> e]
Fail(e) == [ok |-> FALSE, eng |-> e]
\* the error a failed engine call throws
Outcome(r) == IF r.ok THEN NoErr ELSE SqlErr

\* SQLite executing one statement on the connection `e`
EngineExec(e, s) ==
  IF ~e.open THEN Fail(e)
  ELSE CASE s.verb = "BEGIN" ->
              IF e.stack # <<>> THEN Fail(e)
              ELSE Ok([e EXCEPT !.stack = <<Frame("BEGIN")>>])
         [] s.verb = "COMMIT" ->
              \* a COMMIT that fails on a deferred constraint leaves the
              \* transaction open
              IF e.stack = <<>> \/ Violating(e) THEN Fail(e)
              ELSE Ok([e EXCEPT !.committed = Visible(e), !.stack = <<>>])
         [] s.verb = "ROLLBACK" ->
              IF e.stack = <<>> THEN Fail(e)
              ELSE Ok([e EXCEPT !.stack = <<>>])
         [] s.verb = "SAVEPOINT" ->
              Ok([e EXCEPT !.stack = Append(e.stack, Frame(s.arg))])
         [] s.verb = "RELEASE" ->
              LET k == Innermost(e.stack, s.arg) IN
              IF k = 0 \/ (k = 1 /\ Violating(e)) THEN Fail(e)
              ELSE IF k = 1 THEN Ok([e EXCEPT !.committed = Visible(e), !.stack = <<>>])
              ELSE Ok([e EXCEPT !.stack =
                         [SubSeq(e.stack, 1, k - 1) EXCEPT ![k - 1].rows =
                            @ \cup RowsOf(SubSeq(e.stack, k, Len(e.stack)))]])
         [] s.verb = "ROLLBACK TO" ->
              LET k == Innermost(e.stack, s.arg) IN
              IF k = 0 THEN Fail(e)
              ELSE Ok([e EXCEPT !.stack =
                         Append(SubSeq(e.stack, 1, k - 1),
                                [name |-> s.arg, rows |-> {}, undone |-> TRUE])])
         [] s.verb = "INSERT" ->
              IF e.stack = <<>>
                THEN IF s.arg.n = 0 THEN Fail(e)
                     ELSE Ok([e EXCEPT !.committed = @ \cup {s.arg}])
              ELSE Ok([e EXCEPT !.stack[Len(e.stack)].rows = @ \cup {s.arg}])
         [] OTHER -> Fail(e)

\* the driver handle's close(): it throws while the handle is busy, leaving
\* the connection open; otherwise an open transaction is rolled back; closes
\* counts the calls
EngineClose(e) ==
  IF e.busy THEN Fail([e EXCEPT !.closes = @ + 1])
  ELSE Ok([e EXCEPT !.open = FALSE, !.stack = <<>>, !.closes = @ + 1])

\* the connection createDb hands to the session
NewEngine ==
  [open |-> TRUE, stack |-> <<>>, committed |-> {}, closes |-> 0, busy |-> FALSE]

\* ------------------------------------------------- BaseDatabase (the driver)
\* exec(sql): the statement runs inside the Promise executor, synchronously
DbExec(e, s) == EngineExec(e, s)

\* variant: close() without the #isClosed test
DbClose_Always(e, closed) ==
  LET r == EngineClose(e)
  IN [eng |-> r.eng, isClosed |-> closed \/ r.ok, err |-> Outcome(r)]

\* variant: close() sets #isClosed before it calls the handle's close()
DbClose_FlagFirst(e, closed) ==
  IF closed THEN [eng |-> e, isClosed |-> TRUE, err |-> NoErr]
  ELSE LET r == EngineClose(e)
       IN [eng |-> r.eng, isClosed |-> TRUE, err |-> Outcome(r)]

\* close(): a no-op when #isClosed, else the handle is closed and the flag set
DbClose(e, closed) ==
  IF closed THEN [eng |-> e, isClosed |-> TRUE, err |-> NoErr]
  ELSE LET r == EngineClose(e)
       IN [eng |-> r.eng, isClosed |-> r.ok, err |-> Outcome(r)]

\* variant: the mode of an explicit variant is honoured at every depth
OpenStmt_ModeAlways(d, mode) ==
  IF d = 0 \/ mode # "" THEN Stmt("BEGIN", mode) ELSE Stmt("SAVEPOINT", savepointName(d))

\* the statements of one transaction attempt that captured depth d
OpenStmt(d, mode) == IF d = 0 THEN Stmt("BEGIN", mode) ELSE Stmt("SAVEPOINT", savepointName(d))
CloseStmt(d) == IF d = 0 THEN Stmt("COMMIT", "") ELSE Stmt("RELEASE", savepointName(d))
RollbackStmt(d) == IF d = 0 THEN Stmt("ROLLBACK", "") ELSE Stmt("ROLLBACK TO", savepointName(d))

\* variant: the catch block never issues the rollback statement
NeedsRollback_Never(cur) == FALSE

\* variant: the catch block issues the rollback statement at any depth
NeedsRollback_Always(cur) == TRUE

\* catch block: the rollback statement is issued only while #transactionDepth > 0
NeedsRollback(cur) == cur > 0

\* --------------------------------------------------- Database (the queue)
Settled(st) == st \in {"resolved", "rejected"}

\* calls: how many times the work closure of the operation was invoked
Op(kind, mode) ==
  [kind |-> kind, mode |-> mode, st |-> "queued", res |-> NoErr, att |-> 0, calls |-> 0]

\* variant: an operation that was rejected takes another turn
QueueHead_Retry ==
  LET q == {i \in DOMAIN ops : ops[i].st \in {"queued", "rejected"}}
  IN IF q = {} THEN 0 ELSE CHOOSE i \in q : \A j \in q : i <= j

\* the operation whose turn is next: the oldest one not yet started
QueueHead ==
  LET q == {i \in DOMAIN ops : ops[i].st = "queued"}
  IN IF q = {} THEN 0 ELSE CHOOSE i \in q : \A j \in q : i <= j

\* variant: the work closure of a transaction attempt does not return the
\* attempt's promise
OpSt_NoReturn(i) == IF ops[i].st = "running" THEN "resolved" ELSE ops[i].st

\* the state of operation i's resultPromise; the promise of a transaction
\* attempt is the promise its async function returned
OpSt(i) ==
  IF ops[i].st = "running" /\ Settled(att[ops[i].att].pc) THEN att[ops[i].att].pc
  ELSE ops[i].st

\* the value resultPromise settled with (NoErr: it resolved)
OpRes(i) == IF ops[i].st = "running" THEN att[ops[i].att].err ELSE ops[i].res

\* variant: the tail does not await resultPromise
TailSettled_Eager(i) == \A j \in 1..(i - 1) : ops[j].st # "queued"

\* queueUpdatePromise awaits resultPromise: the tail before operation i
\* settles only when every earlier operation has settled
TailSettled(i) == \A j \in 1..(i - 1) : Settled(OpSt(j))

\* variant: the promise of queueUpdatePromise.catch(() => {}) becomes the tail
TailValue_Swallow(i) == "db"

\* variant: the tail is chained on resultPromise without the try/catch
TailValue_Propagate(i) ==
  IF init = "failed" THEN InitErr
  ELSE IF \E j \in 1..(i - 1) : OpSt(j) = "rejected" THEN SqlErr ELSE "db"

\* what the tail delivers to operation i: the engine, or createDb's rejection;
\* a failure of an earlier operation is swallowed by the try/catch
TailValue(i) == IF init = "failed" THEN InitErr ELSE "db"

\* rejection handlers on the promises the session owns. The constructor stores
\* the createDb promise and attaches nothing to it; the first #enqueue chains
\* two then() on it. Every queueUpdatePromise gets .catch(() => {}) at once.
InitHandled == Len(ops) > 0
TailHandled(i) == TRUE

\* variant: the unsupported operation resolves without doing anything
DbBackup_Silent == NoErr

\* backup() of a driver that does not override the base implementation (and
\* likewise serialize(), and function() / aggregate() of the Bun driver): the
\* promise it returns is rejected
DbBackup == UnsupportedErr

\* what fn can return: a plain value, or a promise already resolved with it
Values == {"v1", "v2"}
Returns == [kind : {"plain", "promise"}, val : Values]
\* a body that returns nothing
Undefined == [kind |-> "plain", val |-> "undefined"]

\* variant: the value fn returned is passed on without being awaited
AwaitValue_NoUnwrap(r) == IF r.kind = "promise" THEN "[object Promise]" ELSE r.val

\* result = await fn(...): a promise is unwrapped, a plain value is itself
AwaitValue(r) == IF r.kind = "promise" THEN r.val ELSE r.val

TxOps == {i \in DOMAIN ops : ops[i].kind = "tx"}
Idle == {a \in Attempts : att[a].pc = "idle"}
FreeAttempt == CHOOSE a \in Idle : \A b \in Idle : a <= b
NestedStarted == Cardinality({a \in Attempts : att[a].pc # "idle" /\ att[a].parent # 0})

\* pc: where the attempt is; mode: the variant that was called; depth: the depth
\* it captured; open: its opening statement; parent: the attempt whose fn
\* invoked it (0: the session); err: what its promise rejects with;
\* thrown: what fn threw; rb: its catch block issued a rollback statement;
\* w: INSERTs of fn; pre: the nested attempts of the same fn that had resolved
\* when it was invoked; during: fn wrote while a nested attempt of its own was
\* unsettled; loose: fn finished while a nested attempt of its own was unsettled;
\* ret: what fn returned; val: what the attempt's promise resolved with;
\* waits: the operation fn submitted on the Database and awaits (0: none)
NoAttempt == [pc |-> "idle", mode |-> "", depth |-> 0, open |-> Stmt("", ""),
              parent |-> 0, err |-> NoErr, thrown |-> NoErr, ret |-> Undefined, val |-> "",
              waits |-> 0,
              rb |-> FALSE, w |-> 0, pre |-> {}, during |-> FALSE, loose |-> FALSE]

RECURSIVE Sum(_, _)
Sum(f, S) == IF S = {} THEN 0 ELSE LET x == CHOOSE y \in S : TRUE IN f[x] + Sum(f, S \ {x})

\* INSERTs made so far through the tx handle
TxWrites == Sum([a \in Attempts |-> att[a].w], Attempts)

SetOp(i, st, res) == [ops EXCEPT ![i].st = st, ![i].res = res]

\* an operation whose work made one synchronous engine call settles with it
Done(i, res) == SetOp(i, IF res = NoErr THEN "resolved" ELSE "rejected", res)

\* ------------------------------------------------- a second Database object
\* Its #queue and the #transactionDepth of its driver handle are fields of its
\* own objects. queue: its operations, each "queued", "opening" (a transaction
\* attempt whose BEGIN was executed), "body", "resolved" or "rejected".
NewSession == [init |-> "pending", queue |-> <<>>, depth |-> 0, inTx |-> FALSE]

BHead(s) ==
  LET q == {i \in DOMAIN s.queue : s.queue[i].st = "queued"}
  IN IF q = {} THEN 0 ELSE CHOOSE i \in q : \A j \in q : i <= j

\* variant: #queue is one promise chain shared by the Database objects
BTailSettled_Shared(s, i) ==
  /\ \A j \in 1..(i - 1) : Settled(s.queue[j].st)
  /\ \A j \in DOMAIN ops : Settled(OpSt(j))

\* the tail of the second Database before its operation i has settled
BTailSettled(s, i) == \A j \in 1..(i - 1) : Settled(s.queue[j].st)

\* createDb of the second Database settles
BInit(ok) ==
  /\ sessB.init = "pending"
  /\ sessB' = [sessB EXCEPT !.init = IF ok THEN "ok" ELSE "failed"]
  /\ UNCHANGED <<init, ops, elog, depth, isClosed, eng, att, cfg, stcalls>>

\* a public method of the second Database is called
BSubmit(k) ==
  /\ Len(sessB.queue) < MaxOps
  /\ k = "tx" => Cardinality({i \in DOMAIN sessB.queue : sessB.queue[i].kind = "tx"}) < MaxTx
  /\ sessB' = [sessB EXCEPT !.queue = Append(@, [kind |-> k, st |-> "queued"])]
  /\ UNCHANGED <<init, ops, elog, depth, isClosed, eng, att, cfg, stcalls>>

\* the head of the second queue takes its turn: it is rejected when createDb
\* failed; a statement is executed (valid SQL or not); a transaction attempt
\* captures the depth and executes BEGIN
BStart(valid) ==
  LET i == BHead(sessB) IN
  /\ i # 0
  /\ sessB.init # "pending"
  /\ BTailSettled(sessB, i)
  /\ sessB' =
       IF sessB.init = "failed" THEN [sessB EXCEPT !.queue[i].st = "rejected"]
       ELSE IF sessB.queue[i].kind = "tx"
         THEN IF sessB.inTx THEN [sessB EXCEPT !.queue[i].st = "rejected"]
              ELSE [sessB EXCEPT !.queue[i].st = "opening", !.inTx = TRUE]
       ELSE [sessB EXCEPT !.queue[i].st = IF valid THEN "resolved" ELSE "rejected"]
  /\ UNCHANGED <<init, ops, elog, depth, isClosed, eng, att, cfg, stcalls>>

\* BEGIN was awaited: the depth of the second handle is incremented, fn called
BAfterOpen ==
  /\ \E i \in DOMAIN sessB.queue :
       /\ sessB.queue[i].st = "opening"
       /\ sessB' = [sessB EXCEPT !.queue[i].st = "body", !.depth = @ + 1]
  /\ UNCHANGED <<init, ops, elog, depth, isClosed, eng, att, cfg, stcalls>>

\* fn of the second Database's attempt returns (COMMIT) or throws (ROLLBACK)
BFinish(returns) ==
  /\ \E i \in DOMAIN sessB.queue :
       /\ sessB.queue[i].st = "body"
       /\ sessB' = [sessB EXCEPT !.queue[i].st = IF returns THEN "resolved" ELSE "rejected",
                                  !.depth = 0, !.inTx = FALSE]
  /\ UNCHANGED <<init, ops, elog, depth, isClosed, eng, att, cfg, stcalls>>

\* ----------------------------------------------------- createDb (the loader)
Drivers == {"node:sqlite", "bun:sqlite", "better-sqlite3"}
Undef == "undefined"
\* options.driver, and process.env['ISOMORPHIC_SQLITE_DRIVER'] (which can be
\* set to the empty string)
OptDrivers == Drivers \cup {Undef, "unknown"}
EnvDrivers == Drivers \cup {Undef, "", "unknown"}
Runtimes == {"bun", "node", "unknown"}

\* a ?? b
Coalesce(a, b) == IF a = Undef THEN b ELSE a
\* if (driver)
Truthy(x) == x \notin {Undef, ""}

Loaded(d, tried) == [ok |-> TRUE, driver |-> d, err |-> "", name |-> "", tried |-> tried]
Failed(e, n, tried) == [ok |-> FALSE, driver |-> "", err |-> e, name |-> n, tried |-> tried]

\* loadNodeSqlite / loadBunSqlite / loadBetterSqlite3: the import of the
\* driver's module succeeds or throws; tried records the loaders called
Load(d, c, tried) ==
  IF d \in c.avail THEN Loaded(d, Append(tried, d))
  ELSE Failed("load failed", d, Append(tried, d))

\* variant: a named driver that fails to load falls back to better-sqlite3
Explicit_Fallback(driver, c) ==
  IF driver \in Drivers
    THEN LET r == Load(driver, c, <<>>) IN
         IF r.ok THEN r ELSE Load("better-sqlite3", c, r.tried)
    ELSE Failed("Unknown driver", driver, <<>>)

\* the switch on a named driver
Explicit(driver, c) ==
  IF driver \in Drivers THEN Load(driver, c, <<>>)
  ELSE Failed("Unknown driver", driver, <<>>)

\* the try / catch ladder of one runtime: the built-in driver, then
\* better-sqlite3, then the 'No SQLite driver found' error
Detect(builtin, c) ==
  LET r == Load(builtin, c, <<>>) IN
  IF r.ok THEN r
  ELSE LET b == Load("better-sqlite3", c, r.tried) IN
       IF b.ok THEN b ELSE Failed("No SQLite driver found", "", b.tried)

createDb(c) ==
  LET driver == Coalesce(c.opt, c.env) IN
  IF Truthy(driver) THEN Explicit(driver, c)
  ELSE IF c.runtime = "bun" THEN Detect("bun:sqlite", c)
  ELSE IF c.runtime = "node" THEN Detect("node:sqlite", c)
  ELSE Failed("Unsupported runtime", "", <<>>)

NoResult == Failed("pending", "", <<>>)
\* the calls of createDb: the options, the environment, the runtime, and the
\* drivers whose module can be loaded
Calls == [opt : OptDrivers, env : EnvDrivers, runtime : Runtimes,
          avail : SUBSET Drivers, result : {NoResult}]
\* a call whose inputs are left open: InitOk and InitFail decide its outcome
NoCall == [opt |-> Undef, env |-> Undef, runtime |-> "unknown", avail |-> {},
           result |-> NoResult]

Init ==
  /\ init = "pending"
  /\ ops = <<>>
  /\ elog = <<>>
  /\ depth = 0
  /\ isClosed = FALSE
  /\ eng = NewEngine
  /\ att = [a \in Attempts |-> NoAttempt]
  /\ cfg = NoCall
  /\ sessB = NewSession
  /\ stcalls = <<>>

\* new Database(filename, options) with the inputs of createDb drawn
InitDriver ==
  /\ init = "pending"
  /\ ops = <<>>
  /\ elog = <<>>
  /\ depth = 0
  /\ isClosed = FALSE
  /\ eng = NewEngine
  /\ att = [a \in Attempts |-> NoAttempt]
  /\ cfg \in Calls
  /\ sessB = NewSession
  /\ stcalls = <<>>

\* createDb settles with the driver it selected, or with its error
CreateDb ==
  /\ init = "pending"
  /\ cfg.result = NoResult
  /\ LET r == createDb(cfg) IN
       /\ cfg' = [cfg EXCEPT !.result = r]
       /\ init' = IF r.ok THEN "ok" ELSE "failed"
  /\ UNCHANGED <<ops, elog, depth, isClosed, eng, att>>
  /\ UNCHANGED sessB
  /\ UNCHANGED stcalls

\* createDb settles
InitOk ==
  /\ init = "pending"
  /\ init' = "ok"
  /\ UNCHANGED <<ops, elog, depth, isClosed, eng, att>>
  /\ UNCHANGED cfg
  /\ UNCHANGED sessB
  /\ UNCHANGED stcalls

InitFail ==
  /\ init = "pending"
  /\ init' = "failed"
  /\ UNCHANGED <<ops, elog, depth, isClosed, eng, att>>
  /\ UNCHANGED cfg
  /\ UNCHANGED sessB
  /\ UNCHANGED stcalls

\* a public method is called: #enqueue chains the work behind the tail
Submit(k, mode) ==
  /\ Len(ops) < MaxOps
  /\ k = "tx" => Cardinality(TxOps) < MaxTx
  /\ ops' = Append(ops, Op(k, mode))
  /\ UNCHANGED <<init, elog, depth, isClosed, eng, att>>
  /\ UNCHANGED cfg
  /\ UNCHANGED sessB
  /\ UNCHANGED stcalls

\* the invocation of a transaction attempt up to its first await: the depth is
\* captured and the opening statement is executed
Invoke(a, parent, mode) ==
  LET d == depth
      r == DbExec(eng, OpenStmt(d, mode))
  IN /\ eng' = r.eng
     /\ att' = [att EXCEPT ![a] = [NoAttempt EXCEPT
                  !.pc = IF r.ok THEN "opening" ELSE "openFailed",
                  !.mode = mode, !.depth = d, !.open = OpenStmt(d, mode),
                  !.parent = parent, !.err = Outcome(r),
                  !.pre = {c \in Attempts : parent # 0 /\ att[c].parent = parent
                                              /\ att[c].pc = "resolved"}]]

\* variant: begin / commit / rollback keep #transactionDepth in step
DirectDepth_Tracking(kind, d) ==
  IF kind = "begin" THEN d + 1
  ELSE IF kind \in {"commit", "rollback"} /\ d > 0 THEN d - 1 ELSE d

\* #transactionDepth after the synchronous part of a public method: none of
\* run, exec, begin, commit, rollback, close, raw, backup assigns it, and the
\* invocation of transaction() only reads it
DirectDepth(kind, d) == d

\* the work closure of operation i is invoked
Called(o, i) == [o EXCEPT ![i].calls = @ + 1]

\* the driver handle becomes busy (a statement of it is being stepped) or
\* idle again: while it is busy its close() throws
HandleBusy ==
  /\ init = "ok"
  /\ eng.open
  /\ eng' = [eng EXCEPT !.busy = ~@]
  /\ UNCHANGED <<init, ops, elog, depth, isClosed, att, cfg, sessB, stcalls>>

\* the tail resolved with the engine: the work closure of the head is invoked
StartOp ==
  LET i == QueueHead IN
  /\ i # 0
  /\ init # "pending"
  /\ TailSettled(i)
  /\ TailValue(i) = "db"
  /\ elog' = IF ops[i].kind = "run" /\ eng.open THEN elog ELSE Append(elog, i)
  /\ CASE ops[i].kind = "tx" ->
            /\ Invoke(FreeAttempt, 0, ops[i].mode)
            /\ ops' = Called([ops EXCEPT ![i].st = "running", ![i].att = FreeAttempt], i)
            /\ UNCHANGED <<isClosed>>
       [] ops[i].kind = "close" ->
            LET c == DbClose(eng, isClosed) IN
            /\ eng' = c.eng
            /\ isClosed' = c.isClosed
            /\ ops' = Called(Done(i, c.err), i)
            /\ UNCHANGED att
       [] ops[i].kind = "raw" ->
            \* raw(): Promise.resolve(this._db), whatever the state of the handle
            /\ ops' = Called(Done(i, NoErr), i)
            /\ UNCHANGED <<eng, isClosed, att>>
       [] ops[i].kind = "backup" ->
            \* backup() of a driver that does not override it: Promise.reject(...)
            /\ ops' = Called(Done(i, DbBackup), i)
            /\ UNCHANGED <<eng, isClosed, att>>
       [] ops[i].kind = "prepare" ->
            \* BaseDatabase.prepare: this._db.prepare(sql) inside the executor,
            \* resolved with a BaseStatement around the driver's statement
            /\ ops' = Called(Done(i, IF eng.open THEN NoErr ELSE SqlErr), i)
            /\ UNCHANGED <<eng, isClosed, att>>
       [] ops[i].kind = "run" ->
            \* BaseDatabase.run: prepare(sql) now, stmt.run(params) in its then
            /\ ops' = Called(IF eng.open THEN SetOp(i, "prepared", NoErr)
                             ELSE Done(i, SqlErr), i)
            /\ UNCHANGED <<eng, isClosed, att>>
       [] OTHER ->
            LET s == CASE ops[i].kind = "begin" -> Stmt("BEGIN", "")
                       [] ops[i].kind = "commit" -> Stmt("COMMIT", "")
                       [] ops[i].kind = "rollback" -> Stmt("ROLLBACK", "")
                       [] OTHER -> Stmt("CREATE TABLE", "")
                r == DbExec(eng, s)
            IN /\ eng' = r.eng
               /\ ops' = Called(Done(i, Outcome(r)), i)
               /\ UNCHANGED <<isClosed, att>>
  /\ depth' = DirectDepth(ops[i].kind, depth)
  /\ UNCHANGED init
  /\ UNCHANGED cfg
  /\ UNCHANGED sessB
  /\ UNCHANGED stcalls

\* the tail rejected (createDb failed): the work closure is skipped
RejectOp ==
  LET i == QueueHead IN
  /\ i # 0
  /\ init # "pending"
  /\ TailSettled(i)
  /\ TailValue(i) # "db"
  /\ ops' = SetOp(i, "rejected", TailValue(i))
  /\ UNCHANGED <<init, elog, depth, isClosed, eng, att>>
  /\ UNCHANGED cfg
  /\ UNCHANGED sessB
  /\ UNCHANGED stcalls

\* stmt.run(params) of a db.run(): the INSERT reaches the engine
RunStmt(i) ==
  /\ ops[i].st = "prepared"
  /\ LET r == EngineExec(eng, Stmt("INSERT", [by |-> 0, n |-> i])) IN
       /\ eng' = r.eng
       /\ ops' = Done(i, Outcome(r))
  /\ elog' = Append(elog, i)
  /\ UNCHANGED <<init, depth, isClosed, att>>
  /\ UNCHANGED cfg
  /\ UNCHANGED sessB
  /\ UNCHANGED stcalls

\* ------------------------------------------------------------ BaseStatement
\* variant: the methods of a statement handle go through the session's queue
StmtReady_Queued(i) ==
  /\ ops[i].kind = "prepare" /\ ops[i].st = "resolved"
  /\ \A j \in DOMAIN ops : Settled(OpSt(j))

\* the caller holds the statement handle that prepare() number i resolved
\* with: BaseStatement keeps the driver's statement and nothing of the session
StmtReady(i) == ops[i].kind = "prepare" /\ ops[i].st = "resolved"

\* stmt.run(params): this._statement.run(...) inside the Promise executor, so
\* the statement is executed in the call itself. behind: the operations of the
\* session that were queued at that moment; inflight: the attempts in flight
StmtRun(i) ==
  /\ StmtReady(i)
  /\ Len(stcalls) < MaxCalls
  /\ LET r == EngineExec(eng, Stmt("INSERT", [by |-> 0 - i, n |-> Len(stcalls) + 1])) IN
       /\ eng' = r.eng
       /\ stcalls' = Append(stcalls,
            [h |-> i, res |-> Outcome(r),
             behind |-> {j \in DOMAIN ops : ops[j].st = "queued"},
             inflight |-> {a \in Attempts : att[a].pc \notin {"idle", "resolved", "rejected"}}])
  /\ UNCHANGED <<init, ops, elog, depth, isClosed, att, cfg, sessB>>

\* ------------------------------------- BaseDatabase.transaction (one attempt)
\* a nested attempt that fn started has not settled yet
Awaiting(a) == \E c \in Attempts : att[c].parent = a /\ att[c].pc # "idle" /\ ~Settled(att[c].pc)

\* fn has finished: what it threw (NoErr when it returned), and whether it left
\* a nested attempt behind that it did not await
Finished(a, v) == [att EXCEPT ![a].thrown = v, ![a].loose = Awaiting(a)]

Reject(t, a, e) == [t EXCEPT ![a].pc = "rejected", ![a].err = e]

\* the catch block of attempt a, whose try block failed with e; t is att with
\* what the try block recorded
Catch(t, a, e) ==
  IF NeedsRollback(depth)
    THEN LET r == DbExec(eng, RollbackStmt(att[a].depth)) IN
         /\ eng' = r.eng
         /\ depth' = depth
         /\ att' = IF r.ok
                     THEN [t EXCEPT ![a].pc = "rollingBack", ![a].err = e, ![a].rb = TRUE]
                     ELSE Reject(t, a, SqlErr)   \* the rollback's own error is thrown
    ELSE /\ depth' = att[a].depth
         /\ att' = Reject(t, a, e)
         /\ UNCHANGED eng

\* the opening statement succeeded: the depth is incremented and fn is called
AfterOpen(a) ==
  /\ att[a].pc = "opening"
  /\ depth' = depth + 1
  /\ att' = [att EXCEPT ![a].pc = "body"]
  /\ UNCHANGED <<init, ops, elog, isClosed, eng>>
  /\ UNCHANGED cfg
  /\ UNCHANGED sessB
  /\ UNCHANGED stcalls

\* the opening or the closing statement failed: the await throws into catch
AfterFail(a) ==
  /\ att[a].pc \in {"openFailed", "closeFailed"}
  /\ Catch(att, a, att[a].err)
  /\ UNCHANGED <<init, ops, elog, isClosed>>
  /\ UNCHANGED cfg
  /\ UNCHANGED sessB
  /\ UNCHANGED stcalls

\* fn writes through the tx handle (the handle is the BaseDatabase itself)
TxWrite(a) ==
  /\ att[a].pc = "body"
  /\ TxWrites < MaxWrites
  /\ att' = [att EXCEPT ![a].w = @ + 1, ![a].during = @ \/ Awaiting(a)]
  /\ eng' = EngineExec(eng, Stmt("INSERT", [by |-> a, n |-> att[a].w + 1])).eng
  /\ UNCHANGED <<init, ops, elog, depth, isClosed>>
  /\ UNCHANGED cfg
  /\ UNCHANGED sessB
  /\ UNCHANGED stcalls

\* fn inserts a row that violates a deferred constraint
TxViolate(a) ==
  /\ att[a].pc = "body"
  /\ eng.stack # <<>>
  /\ [by |-> a, n |-> 0] \notin RowsOf(eng.stack)
  /\ att' = [att EXCEPT ![a].during = @ \/ Awaiting(a)]
  /\ eng' = EngineExec(eng, Stmt("INSERT", [by |-> a, n |-> 0])).eng
  /\ UNCHANGED <<init, ops, elog, depth, isClosed>>
  /\ UNCHANGED cfg
  /\ UNCHANGED sessB
  /\ UNCHANGED stcalls

\* fn ends the transaction itself with tx.exec('COMMIT') or tx.exec('ROLLBACK'):
\* exec passes the SQL to the engine and does not touch #transactionDepth
TxEnd(a, verb) ==
  /\ att[a].pc = "body"
  /\ eng.stack # <<>>
  /\ eng' = DbExec(eng, Stmt(verb, "")).eng
  /\ UNCHANGED <<init, ops, elog, depth, isClosed, att>>
  /\ UNCHANGED cfg
  /\ UNCHANGED sessB
  /\ UNCHANGED stcalls

\* fn calls a method of the Database (not of the tx handle) and awaits the
\* promise: the operation is chained behind the tail like any other
OuterCall(a) ==
  /\ att[a].pc = "body"
  /\ att[a].waits = 0
  /\ Len(ops) < MaxOps
  /\ ops' = Append(ops, Op("run", ""))
  /\ att' = [att EXCEPT ![a].waits = Len(ops) + 1]
  /\ UNCHANGED <<init, elog, depth, isClosed, eng>>
  /\ UNCHANGED cfg
  /\ UNCHANGED sessB
  /\ UNCHANGED stcalls

\* fn is suspended on the promise of an operation of the Database
Suspended(a) == att[a].waits # 0 /\ ~Settled(OpSt(att[a].waits))

\* fn invokes tx.transaction(inner)() or one of its variants: a nested attempt
\* starts; fn may or may not await it before its next step
StartNested(p, mode) ==
  /\ att[p].pc = "body"
  /\ NestedStarted < MaxNested
  /\ Invoke(FreeAttempt, p, mode)
  /\ UNCHANGED <<init, ops, elog, depth, isClosed>>
  /\ UNCHANGED cfg
  /\ UNCHANGED sessB
  /\ UNCHANGED stcalls

\* fn returned (a value or a resolved promise): the depth is decremented and
\* the closing statement is executed; when it succeeds the attempt resolves
\* with fn's result
BodyReturn(a, ret) ==
  /\ att[a].pc = "body"
  /\ depth' = depth - 1
  /\ LET r == DbExec(eng, CloseStmt(att[a].depth)) IN
       /\ eng' = r.eng
       /\ att' = [Finished(a, NoErr) EXCEPT
                    ![a].pc = IF r.ok THEN "resolved" ELSE "closeFailed",
                    ![a].err = Outcome(r),
                    ![a].ret = ret,
                    ![a].val = IF r.ok THEN AwaitValue(ret) ELSE ""]
  /\ UNCHANGED <<init, ops, elog, isClosed>>
  /\ UNCHANGED cfg
  /\ UNCHANGED sessB
  /\ UNCHANGED stcalls

\* fn threw, or the promise it returned rejected: the catch block runs
BodyThrow(a) ==
  /\ att[a].pc = "body"
  /\ Catch(Finished(a, ErrVal(a)), a, ErrVal(a))
  /\ UNCHANGED <<init, ops, elog, isClosed>>
  /\ UNCHANGED cfg
  /\ UNCHANGED sessB
  /\ UNCHANGED stcalls

\* the rollback statement was awaited: the depth is reset and err re-thrown
AfterRollback(a) ==
  /\ att[a].pc = "rollingBack"
  /\ depth' = att[a].depth
  /\ att' = [att EXCEPT ![a].pc = "rejected"]
  /\ UNCHANGED <<init, ops, elog, isClosed, eng>>
  /\ UNCHANGED cfg
  /\ UNCHANGED sessB
  /\ UNCHANGED stcalls

Next ==
  \/ InitOk
  \/ InitFail
  \/ \E k \in Kinds : Submit(k, "")
  \/ StartOp
  \/ RejectOp
  \/ \E i \in DOMAIN ops : RunStmt(i)
  \/ \E a \in Attempts : AfterOpen(a)
  \/ \E a \in Attempts : AfterFail(a)
  \/ \E a \in Attempts : TxWrite(a)
  \/ \E a \in Attempts : StartNested(a, "")
  \/ \E a \in Attempts : BodyReturn(a, Undefined)
  \/ \E a \in Attempts : BodyThrow(a)
  \/ \E a \in Attempts : AfterRollback(a)

\* the plain variant is called everywhere: the mode changes the text of BEGIN
\* and nothing else in a session, which has one connection
Spec == Init /\ [][Next]_vars

\* the bodies await every nested attempt they start before their next step
NextAwaited ==
  \/ InitOk
  \/ InitFail
  \/ \E k \in Kinds : Submit(k, "")
  \/ StartOp
  \/ RejectOp
  \/ \E i \in DOMAIN ops : RunStmt(i)
  \/ \E a \in Attempts : AfterOpen(a)
  \/ \E a \in Attempts : AfterFail(a)
  \/ \E a \in Attempts : ~Awaiting(a) /\ TxWrite(a)
  \/ \E a \in Attempts : ~Awaiting(a) /\ StartNested(a, "")
  \/ \E a \in Attempts : ~Awaiting(a) /\ BodyReturn(a, Undefined)
  \/ \E a \in Attempts : ~Awaiting(a) /\ BodyThrow(a)
  \/ \E a \in Attempts : AfterRollback(a)

SpecAwaited == Init /\ [][NextAwaited]_vars

\* the bodies only run statements: no nested attempt is started
NextFlat ==
  \/ InitOk
  \/ InitFail
  \/ \E k \in Kinds : Submit(k, "")
  \/ StartOp
  \/ RejectOp
  \/ \E i \in DOMAIN ops : RunStmt(i)
  \/ \E a \in Attempts : AfterOpen(a)
  \/ \E a \in Attempts : AfterFail(a)
  \/ \E a \in Attempts : TxWrite(a)
  \/ \E a \in Attempts : BodyReturn(a, Undefined)
  \/ \E a \in Attempts : BodyThrow(a)
  \/ \E a \in Attempts : AfterRollback(a)

SpecFlat == Init /\ [][NextFlat]_vars

\* transaction attempts only, called through any of the four variants at any
\* depth, every nested attempt awaited and every body returning
NextModes ==
  \/ InitOk
  \/ \E m \in Modes : Submit("tx", m)
  \/ StartOp
  \/ \E a \in Attempts : AfterOpen(a)
  \/ \E a \in Attempts, m \in Modes : ~Awaiting(a) /\ StartNested(a, m)
  \/ \E a \in Attempts : ~Awaiting(a) /\ BodyReturn(a, Undefined)

SpecModes == Init /\ [][NextModes]_vars

\* transaction attempts whose bodies write and return a plain value or an
\* already-resolved promise, every nested attempt awaited
NextValues ==
  \/ InitOk
  \/ Submit("tx", "")
  \/ StartOp
  \/ \E a \in Attempts : AfterOpen(a)
  \/ \E a \in Attempts : ~Awaiting(a) /\ TxWrite(a)
  \/ \E a \in Attempts : ~Awaiting(a) /\ StartNested(a, "")
  \/ \E a \in Attempts, r \in Returns : ~Awaiting(a) /\ BodyReturn(a, r)

SpecValues == Init /\ [][NextValues]_vars

\* db.begin() and transaction attempts whose bodies await every nested
\* attempt they start, on a session whose engine was created
NextNested ==
  \/ InitOk
  \/ \E k \in {"tx", "begin"} : Submit(k, "")
  \/ StartOp
  \/ \E a \in Attempts : AfterOpen(a)
  \/ \E a \in Attempts : AfterFail(a)
  \/ \E a \in Attempts : ~Awaiting(a) /\ TxWrite(a)
  \/ \E a \in Attempts : ~Awaiting(a) /\ TxViolate(a)
  \/ \E a \in Attempts : ~Awaiting(a) /\ StartNested(a, "")
  \/ \E a \in Attempts : ~Awaiting(a) /\ BodyReturn(a, Undefined)
  \/ \E a \in Attempts : ~Awaiting(a) /\ BodyThrow(a)
  \/ \E a \in Attempts : AfterRollback(a)

SpecNested == Init /\ [][NextNested]_vars

\* a session whose engine is created and whose bodies finish: the queue with
\* the scheduling the runtime guarantees. Every continuation that is ready runs
\* (promise reactions are microtasks), and the work of every operation settles:
\* a body that was called returns or throws.
NextLive ==
  \/ InitOk
  \/ \E k \in Kinds : Submit(k, "")
  \/ StartOp
  \/ \E i \in DOMAIN ops : RunStmt(i)
  \/ \E a \in Attempts : AfterOpen(a)
  \/ \E a \in Attempts : AfterFail(a)
  \/ \E a \in Attempts : TxWrite(a)
  \/ \E a \in Attempts : BodyReturn(a, Undefined)
  \/ \E a \in Attempts : BodyThrow(a)
  \/ \E a \in Attempts : AfterRollback(a)

Fairness ==
  /\ WF_vars(InitOk)
  /\ WF_vars(StartOp)
  /\ WF_vars(\E i \in DOMAIN ops : RunStmt(i))
  /\ WF_vars(\E a \in Attempts : AfterOpen(a))
  /\ WF_vars(\E a \in Attempts : AfterFail(a))
  /\ WF_vars(\E a \in Attempts : AfterRollback(a))
  /\ WF_vars(\E a \in Attempts : BodyReturn(a, Undefined) \/ BodyThrow(a))

SpecLive == Init /\ [][NextLive]_vars /\ Fairness

\* two Database objects used side by side
NextTwo ==
  \/ InitOk
  \/ InitFail
  \/ \E k \in {"tx", "bad"} : Submit(k, "")
  \/ StartOp
  \/ RejectOp
  \/ \E a \in Attempts : AfterOpen(a)
  \/ \E a \in Attempts : BodyReturn(a, Undefined)
  \/ \E a \in Attempts : BodyThrow(a)
  \/ \E a \in Attempts : AfterRollback(a)
  \/ \E ok \in BOOLEAN : BInit(ok)
  \/ \E k \in {"tx", "exec"} : BSubmit(k)
  \/ \E valid \in BOOLEAN : BStart(valid)
  \/ BAfterOpen
  \/ \E returns \in BOOLEAN : BFinish(returns)

SpecTwo == Init /\ [][NextTwo]_vars

\* transaction attempts whose bodies may call the Database itself and await
\* the result
NextOuter ==
  \/ InitOk
  \/ InitFail
  \/ \E k \in {"tx", "run", "bad", "backup"} : Submit(k, "")
  \/ StartOp
  \/ RejectOp
  \/ \E i \in DOMAIN ops : RunStmt(i)
  \/ \E a \in Attempts : AfterOpen(a)
  \/ \E a \in Attempts : OuterCall(a)
  \/ \E a \in Attempts : ~Suspended(a) /\ TxWrite(a)
  \/ \E a \in Attempts : ~Suspended(a) /\ BodyReturn(a, Undefined)
  \/ \E a \in Attempts : ~Suspended(a) /\ BodyThrow(a)
  \/ \E a \in Attempts : AfterRollback(a)

SpecOuter == Init /\ [][NextOuter]_vars

\* statements of the caller and transaction attempts whose bodies may end the
\* transaction themselves through tx.exec
NextExec ==
  \/ InitOk
  \/ \E k \in Kinds : Submit(k, "")
  \/ StartOp
  \/ \E i \in DOMAIN ops : RunStmt(i)
  \/ \E a \in Attempts : AfterOpen(a)
  \/ \E a \in Attempts : AfterFail(a)
  \/ \E a \in Attempts : TxWrite(a)
  \/ \E a \in Attempts, verb \in {"COMMIT", "ROLLBACK"} : TxEnd(a, verb)
  \/ \E a \in Attempts : BodyReturn(a, Undefined)
  \/ \E a \in Attempts : BodyThrow(a)
  \/ \E a \in Attempts : AfterRollback(a)

SpecExec == Init /\ [][NextExec]_vars

\* close() against a handle whose close() can throw, between statements
NextClose ==
  \/ InitOk
  \/ \E k \in {"close", "run", "begin", "raw"} : Submit(k, "")
  \/ StartOp
  \/ \E i \in DOMAIN ops : RunStmt(i)
  \/ HandleBusy

SpecClose == Init /\ [][NextClose]_vars

\* statement handles obtained from prepare(), called while other operations of
\* the session are queued or in flight
NextStmt ==
  \/ InitOk
  \/ \E k \in {"prepare", "run", "tx"} : Submit(k, "")
  \/ StartOp
  \/ \E i \in DOMAIN ops : RunStmt(i)
  \/ \E i \in DOMAIN ops : StmtRun(i)
  \/ \E a \in Attempts : AfterOpen(a)
  \/ \E a \in Attempts : BodyReturn(a, Undefined)
  \/ \E a \in Attempts : BodyThrow(a)
  \/ \E a \in Attempts : AfterRollback(a)

SpecStmt == Init /\ [][NextStmt]_vars

\* the selection of the driver, for every call of createDb, followed by one
\* statement
NextDriver ==
  \/ CreateDb
  \/ Submit("bad", "")
  \/ StartOp
  \/ RejectOp

SpecDriver == InitDriver /\ [][NextDriver]_vars

\* ------------------------------------------------------------- properties
Range(f) == {f[i] : i \in DOMAIN f}
InFlight(i) == OpSt(i) \in {"prepared", "running"}
TopLevel(a) == att[a].pc # "idle" /\ att[a].parent = 0
RowsBy(a) == {r \in Visible(eng) : r.by = a}

\* C1: the engine sees the operations of a session in exactly the order in which
\* they were submitted, whether they were submitted before or after createDb
\* settled and whether or not the caller awaited the earlier ones.
C1_SubmissionOrder == \A k \in DOMAIN elog : elog[k] = k

\* two operations submitted back to back: the engine has been handed the first
\* of them, which has not settled, and the second is still queued
C1_Witness ==
  /\ Len(ops) = 2 /\ elog = <<1>>
  /\ ops[1].kind = "tx" /\ ops[1].st = "running" /\ att[ops[1].att].pc = "opening"
  /\ ops[2].kind = "begin" /\ ops[2].st = "queued"

\* C2: at most one queued operation is in flight, and an operation has started
\* only if every operation submitted before it has settled.
C2_OneInFlight ==
  /\ Cardinality({i \in DOMAIN ops : InFlight(i)}) <= 1
  /\ \A i \in DOMAIN ops : ops[i].st # "queued" => TailSettled(i)

\* a db.run() is in flight between its prepare and its stmt.run while another
\* operation waits behind it
C2_Witness ==
  /\ Len(ops) = 2
  /\ ops[1].kind = "run" /\ ops[1].st = "prepared"
  /\ ops[2].st = "queued" /\ init = "ok"

\* C3: with the engine initialized, an operation is rejected only by the failure
\* of its own work (a failure is delivered to the failing operation's promise
\* alone), and the operation behind a failed one can still take its turn.
C3_FailureIsolation ==
  /\ \A i \in DOMAIN ops : (init = "ok" /\ OpSt(i) = "rejected") => i \in Range(elog)
  /\ \A i \in DOMAIN ops :
       (init = "ok" /\ i = QueueHead /\ TailSettled(i)) => TailValue(i) = "db"

\* invalid SQL was rejected and the operation submitted after it succeeded
C3_Witness ==
  /\ Len(ops) = 2 /\ elog = <<1, 2>>
  /\ ops[1].kind = "bad" /\ OpSt(1) = "rejected"
  /\ ops[2].kind = "run" /\ OpSt(2) = "resolved"
  /\ [by |-> 0, n |-> 2] \in eng.committed

\* a transaction attempt of the queue between its opening statement and its
\* COMMIT / ROLLBACK
InWindow(i) ==
  /\ ops[i].kind = "tx" /\ ops[i].st = "running"
  /\ att[ops[i].att].pc \in {"opening", "body", "closeFailed"}

\* a directly submitted operation makes an engine call in this step
DirectCall(i) ==
  /\ ops[i].kind # "tx"
  /\ ops[i].st \in {"queued", "prepared"}
  /\ ops'[i].st \in {"prepared", "resolved", "rejected"}
  /\ ops'[i].st # ops[i].st
  /\ elog' # elog \/ ops'[i].st = "prepared"

\* C4: no operation submitted directly on the session reaches the engine while
\* a transaction attempt of the session is between its BEGIN and its COMMIT or
\* ROLLBACK.
C4_AttemptAtomic ==
  [][\A i \in DOMAIN ops : DirectCall(i) => ~\E j \in DOMAIN ops : InWindow(j)]_vars

\* the attempt has written inside its open transaction while a directly
\* submitted INSERT is waiting in the queue
C4_Witness ==
  /\ Len(ops) = 2
  /\ InWindow(1) /\ RowsBy(ops[1].att) # {} /\ eng.stack # <<>>
  /\ ops[2].kind = "run" /\ ops[2].st = "queued"

Children(a) == {c \in Attempts : att[c].pc # "idle" /\ att[c].parent = a}

RECURSIVE TopOf(_)
TopOf(a) == IF att[a].parent = 0 THEN a ELSE TopOf(att[a].parent)

\* every body under the top-level attempt a awaited the nested attempts it
\* started (one by one or together) before it returned or threw
Orderly(a) == \A c \in Attempts : (att[c].pc # "idle" /\ TopOf(c) = a) => ~att[c].loose
BodyFailed(a) == att[a].pc = "rejected" /\ att[a].thrown # NoErr

\* C5: once a top-level attempt whose body failed has settled, its ROLLBACK has
\* been issued and no row the body wrote is visible to later operations.
C5_BodyFailureRollsBack ==
  \A a \in Attempts :
    (TopLevel(a) /\ att[a].depth = 0 /\ BodyFailed(a) /\ att[a].w > 0 /\ Orderly(a))
    => (att[a].rb /\ RowsBy(a) = {})

\* C6: an attempt whose body failed rejects with the very value the body threw.
C6_RethrowIdentity ==
  \A a \in Attempts : (BodyFailed(a) /\ Orderly(TopOf(a))) => att[a].err = att[a].thrown

\* the rows the body of attempt a has inserted
Wrote(a) == {[by |-> a, n |-> k] : k \in 1..att[a].w}

\* C7: when the body of a nested attempt has failed and the enclosing top-level
\* attempt has caught the failure and committed, no row of the failed attempt
\* remains, and the rows the enclosing body wrote before or after its nested
\* attempts and the rows of the nested attempts that had succeeded before the
\* failed one started are committed.
C7_SavepointIsolation ==
  \A p \in Attempts, n \in Attempts :
    (TopLevel(p) /\ att[p].depth = 0 /\ att[p].pc = "resolved" /\ Orderly(p)
       /\ ~att[p].during /\ n \in Children(p) /\ BodyFailed(n))
    => /\ RowsBy(n) = {}
       /\ Wrote(p) \subseteq eng.committed
       /\ \A c \in att[n].pre : Wrote(c) \subseteq eng.committed

\* C8: when the body of a top-level attempt fails after nested attempts have
\* succeeded, the transaction is rolled back and no row of those nested
\* attempts remains.
C8_OuterFailureUndoesNested ==
  \A a \in Attempts, c \in Attempts :
    (TopLevel(a) /\ att[a].depth = 0 /\ BodyFailed(a) /\ Orderly(a)
       /\ c \in Children(a) /\ att[c].pc = "resolved")
    => (att[a].rb /\ RowsBy(c) = {})

\* frames the engine has open: BEGIN or SAVEPOINT issued and not yet closed by
\* COMMIT / ROLLBACK or RELEASE / ROLLBACK TO
OpenFrames == Cardinality({k \in DOMAIN eng.stack : ~eng.stack[k].undone})

\* no attempt is between one of its statements and the bookkeeping that follows
Quiescent == \A a \in Attempts : att[a].pc \in {"idle", "body", "resolved", "rejected"}

\* C9: transactionDepth equals the number of frames open in the engine.
C9_DepthIsOpenFrames == Quiescent => depth = OpenFrames

\* C10: transactionDepth is never negative.
C10_DepthNonNegative == depth >= 0

\* C11: when createDb has failed, the only way an operation settles is by
\* rejecting with createDb's error; no work closure is invoked, so nothing
\* reaches the engine and no transaction attempt is started.
C11_InitFailureRejectsAll ==
  init = "failed" =>
    /\ elog = <<>>
    /\ eng = NewEngine
    /\ \A a \in Attempts : att[a].pc = "idle"
    /\ \A i \in DOMAIN ops :
         /\ ops[i].st \in {"queued", "rejected"}
         /\ ops[i].st = "rejected" => ops[i].res = InitErr

\* createDb failed and two operations, a run() and a transaction attempt, were
\* both rejected with its error
C11_Witness ==
  /\ init = "failed" /\ Len(ops) = 2
  /\ ops[1].kind = "run" /\ ops[1].st = "rejected" /\ ops[1].res = InitErr
  /\ ops[2].kind = "tx" /\ ops[2].st = "rejected" /\ ops[2].res = InitErr

\* C12: when createDb has failed, neither the createDb promise nor any tail
\* promise of the queue is rejected without a handler, however many operations
\* were submitted (none included).
C12_NoUnhandledRejection ==
  init = "failed" => (InitHandled /\ \A i \in DOMAIN ops : TailHandled(i))

\* operation i was submitted after a close()
AfterClose(i) == \E j \in 1..(i - 1) : ops[j].kind = "close"

\* C13: an operation other than close() that was submitted after a close() can
\* only settle by rejecting, and no row of it reaches the engine.
C13_ClosedRejects ==
  \A i \in DOMAIN ops :
    (init = "ok" /\ AfterClose(i) /\ ops[i].kind # "close")
    => /\ Settled(OpSt(i)) => OpSt(i) = "rejected"
       /\ [by |-> 0, n |-> i] \notin Visible(eng)

\* C14: every close() resolves; the first one closes the driver handle and
\* sets the flag, a repeated one leaves both alone: the handle is closed at
\* most once and the session stays closed.
C14_CloseIdempotent ==
  init = "ok" =>
    /\ eng.closes <= 1
    /\ isClosed <=> ~eng.open
    /\ \A i \in DOMAIN ops :
         (ops[i].kind = "close" /\ Settled(OpSt(i)))
         => (OpSt(i) = "resolved" /\ isClosed /\ eng.closes = 1)

\* close() was called twice and resolved both times
C14_Witness ==
  /\ Len(ops) = 2 /\ init = "ok"
  /\ ops[1].kind = "close" /\ OpSt(1) = "resolved"
  /\ ops[2].kind = "close" /\ OpSt(2) = "resolved"
  /\ isClosed /\ eng.closes = 1

\* C15: the opening statement of an attempt is BEGIN with the mode of the
\* variant that was called when the captured depth is 0, and SAVEPOINT
\* isomorphic_sqlite_<depth> for every variant when the captured depth is
\* above 0; right after it was issued the engine's innermost frame is that one.
C15_OpeningStatement ==
  \A a \in Attempts :
    att[a].pc # "idle" =>
      /\ att[a].depth = 0 => att[a].open = Stmt("BEGIN", att[a].mode)
      /\ att[a].depth > 0 =>
           att[a].open = Stmt("SAVEPOINT", "isomorphic_sqlite_" \o ToString(att[a].depth))
      /\ att[a].pc = "opening" =>
           /\ eng.stack # <<>>
           /\ eng.stack[Len(eng.stack)].name =
                IF att[a].depth = 0 THEN "BEGIN" ELSE att[a].open.arg

\* fn.exclusive() at depth 0 issued BEGIN EXCLUSIVE, and inner.immediate()
\* called from its body at depth 1 issued SAVEPOINT isomorphic_sqlite_1
C15_Witness ==
  \E p \in Attempts, n \in Attempts :
    /\ att[p].pc = "body" /\ att[p].mode = "EXCLUSIVE" /\ att[p].parent = 0
    /\ att[p].open = Stmt("BEGIN", "EXCLUSIVE")
    /\ att[n].pc = "opening" /\ att[n].parent = p /\ att[n].mode = "IMMEDIATE"
    /\ att[n].depth = 1 /\ att[n].open = Stmt("SAVEPOINT", "isomorphic_sqlite_1")

\* attempt a and every attempt enclosing it resolved
RECURSIVE ChainResolved(_)
ChainResolved(a) ==
  att[a].pc = "resolved" /\ (att[a].parent # 0 => ChainResolved(att[a].parent))

\* the step in which attempt a resolves is the step of its closing statement,
\* taken after the body's statements: COMMIT empties the frame stack and makes
\* every visible row permanent, RELEASE removes frames and keeps the rows
ResolveStep(a) ==
  (att[a].pc = "body" /\ att'[a].pc = "resolved")
  => IF att[a].depth = 0
       THEN eng'.stack = <<>> /\ eng'.committed = Visible(eng)
       ELSE Len(eng'.stack) < Len(eng.stack) /\ Visible(eng') = Visible(eng)

\* the rows of a body that returned, in a transaction that committed, are
\* seen by later operations
WritesKept ==
  \A a \in Attempts :
    (ChainResolved(a) /\ att[TopOf(a)].depth = 0 /\ Orderly(TopOf(a)) /\ ~att[a].during)
    => Wrote(a) \subseteq eng.committed

\* C16: an attempt whose body returned issues its closing statement (COMMIT at
\* depth 0, RELEASE SAVEPOINT otherwise) after the body's statements, resolves
\* with that statement and not before, and the rows the body wrote are visible
\* to the operations that follow the transaction.
C16_SuccessPath == []WritesKept /\ [][\A a \in Attempts : ResolveStep(a)]_vars

\* C17: a successful attempt resolves with exactly the value fn produced, and a
\* body returning a plain value is handled like one returning an
\* already-resolved promise of it: the same closing statement is executed, the
\* depth is decremented once, and the resolved value is the same
ValueStep(a) == (att[a].pc = "body" /\ att'[a].pc = "resolved")
  => /\ att'[a].val = att'[a].ret.val
     /\ eng' = EngineExec(eng, CloseStmt(att[a].depth)).eng
     /\ depth' = depth - 1
ValueKept == \A a \in Attempts : att[a].pc = "resolved" => att[a].val = att[a].ret.val
EmptyBody(a) == att[a].w = 0 /\ Children(a) = {}

\* the body of attempt a returns in this step
Returning(a) == att[a].pc = "body" /\ att'[a].pc # "body" /\ att'[a].thrown = NoErr

\* C18: an attempt whose body performs no operation still opens and closes its
\* frame: when the body returns, the one closing statement that matches the
\* opening one succeeds and closes a frame, the attempt resolves without any
\* further statement, and transactionDepth is back at the captured value
EmptyStep(a) == (Returning(a) /\ EmptyBody(a) /\ Orderly(TopOf(a)))
  => /\ att'[a].pc = "resolved"
     /\ eng' = EngineExec(eng, CloseStmt(att[a].depth)).eng
     /\ Len(eng'.stack) < Len(eng.stack)
     /\ depth' = att[a].depth
C18_EmptyBody == [][\A a \in Attempts : EmptyStep(a)]_vars

\* the positions of the savepoints open in the engine
OpenSavepoints == {k \in DOMAIN eng.stack : eng.stack[k].name # "BEGIN"}

\* C19: no two savepoints that are open at the same time in one session have the
\* same name, whatever the interleaving of the nested attempts.
C19_NoNameCollision ==
  \A j, k \in OpenSavepoints : j # k => eng.stack[j].name # eng.stack[k].name

\* C20: an operation the driver cannot perform never resolves: once settled it
\* is rejected, with the 'not supported by this driver' error when its work
\* closure ran; no other operation is rejected with that error, and a statement
\* queued behind unsupported operations only still reaches the engine and
\* resolves.
C20_UnsupportedRejects ==
  /\ \A i \in DOMAIN ops : ops[i].kind = "backup" =>
        /\ ops[i].st \in {"queued", "rejected"}
        /\ ops[i].st = "rejected" => ops[i].res = IF init = "ok" THEN UnsupportedErr ELSE InitErr
  /\ \A j \in DOMAIN ops : ops[j].kind # "backup" => OpRes(j) # UnsupportedErr
  /\ \A j \in DOMAIN ops :
        (/\ j > 1 /\ \A i \in 1..(j - 1) : ops[i].kind = "backup"
         /\ init = "ok" /\ ops[j].kind = "run" /\ Settled(ops[j].st))
        => ops[j].st = "resolved" /\ j \in Range(elog)

\* a backup was rejected as unsupported and the operation queued behind it
\* resolved
C20_Witness ==
  /\ Len(ops) = 2
  /\ ops[1].kind = "backup" /\ ops[1].st = "rejected" /\ ops[1].res = UnsupportedErr
  /\ ops[2].kind = "run" /\ ops[2].st = "resolved"

\* the built-in driver of a runtime
Builtin(rt) == IF rt = "bun" THEN "bun:sqlite" ELSE "node:sqlite"

\* C21: a driver named by options.driver, else by the environment variable, is
\* the only one loaded, with no fallback, and a name that is no driver fails
\* with 'Unknown driver: <name>'; with no driver named, the built-in driver of
\* the runtime is tried first and better-sqlite3 only after it failed to load.
C21_DriverSelection ==
  LET named == IF cfg.opt # Undef THEN cfg.opt ELSE cfg.env
      r == cfg.result
  IN r # NoResult =>
       /\ (named \in Drivers) =>
             /\ r.tried = <<named>>
             /\ r.ok = (named \in cfg.avail)
             /\ r.ok => r.driver = named
       /\ (named \notin Drivers \cup {Undef, ""}) =>
             ~r.ok /\ r.err = "Unknown driver" /\ r.name = named /\ r.tried = <<>>
       /\ (named \in {Undef, ""} /\ cfg.runtime \in {"bun", "node"}) =>
             LET b == Builtin(cfg.runtime) IN
             /\ r.tried[1] = b
             /\ (b \in cfg.avail) => (r.ok /\ r.driver = b /\ r.tried = <<b>>)
             /\ (b \notin cfg.avail) =>
                   /\ r.tried = <<b, "better-sqlite3">>
                   /\ r.ok = ("better-sqlite3" \in cfg.avail)
                   /\ r.ok => r.driver = "better-sqlite3"
       /\ (init = "ok") = r.ok

\* a named driver failed to load although better-sqlite3 was available, and
\* the statement submitted to the session was rejected
C21_Witness ==
  /\ cfg.opt = "node:sqlite" /\ cfg.env = "better-sqlite3"
  /\ cfg.avail = {"better-sqlite3", "bun:sqlite"}
  /\ cfg.result # NoResult /\ ~cfg.result.ok /\ cfg.result.tried = <<"node:sqlite">>
  /\ Len(ops) = 1 /\ ops[1].st = "rejected"

\* attempt a has issued its opening statement and has not settled
Active(a) == att[a].pc \notin {"idle", "resolved", "rejected"}

\* C22 (as stated): every statement of a transaction attempt is an ordinary
\* operation of the session queue: the attempts have issued no more opening
\* statements than the queue has started operations other than attempts.
C22_StatementsQueued ==
  Cardinality({a \in Attempts : att[a].pc # "idle"})
    <= Cardinality({j \in DOMAIN ops : ops[j].kind # "tx" /\ ops[j].st # "queued"})

\* C22 (amended): a top-level attempt is one operation of the queue, and the
\* statements of the attempt and of the nested attempts its bodies await are
\* executed on the driver handle while that operation, and no other, is in
\* flight.
C22_InsideOneOperation ==
  \A a \in Attempts : Active(a) =>
    \E i \in DOMAIN ops :
      /\ ops[i].kind = "tx" /\ ops[i].att = TopOf(a) /\ InFlight(i)
      /\ \A j \in DOMAIN ops : j # i => ~InFlight(j)

\* a nested attempt has executed its SAVEPOINT inside the one operation of the
\* top-level attempt, with a db.begin() waiting in the queue
C22_Witness ==
  /\ Len(ops) = 2 /\ ops[1].kind = "tx" /\ ops[2].kind = "begin" /\ ops[2].st = "queued"
  /\ \E a \in Attempts : att[a].pc = "body" /\ att[a].depth = 1
                           /\ Len(eng.stack) = 2 /\ depth = 2

\* the frame attempt a opened is still open in the engine
OwnFrameOpen(a) ==
  /\ att[a].pc \in {"body", "closeFailed"}
  /\ IF att[a].depth = 0 THEN eng.stack # <<>> /\ eng.stack[1].name = "BEGIN"
     ELSE Innermost(eng.stack, savepointName(att[a].depth)) # 0

\* the try block of attempt a has failed and its catch block runs in this step
Catching(a) ==
  /\ att[a].pc \in {"openFailed", "closeFailed", "body"}
  /\ att'[a].pc \in {"rollingBack", "rejected"}

\* C23: on the failure path (the opening statement, fn, or the closing statement
\* failed) the rollback statement of the captured depth is issued exactly when
\* the attempt's own frame is still open, and once the attempt has rejected
\* transactionDepth equals the captured depth.
FailureStep(a) ==
  /\ Catching(a) =>
       /\ att'[a].rb = OwnFrameOpen(a)
       /\ att'[a].rb => eng' = EngineExec(eng, RollbackStmt(att[a].depth)).eng
       /\ ~att'[a].rb => eng' = eng
  /\ (att[a].pc # "rejected" /\ att'[a].pc = "rejected") => depth' = att[a].depth
C23_FailurePath == [][\A a \in Attempts : FailureStep(a)]_vars

\* operation i has been submitted, its work closure was invoked and its promise
\* has settled
StartedAndSettled(i) == Len(ops) >= i /\ ops[i].st # "queued" /\ Settled(OpSt(i))

\* C24: with the engine created and the work of every operation settling, every
\* submitted operation eventually starts and its promise eventually settles,
\* however many earlier operations failed.
C24_QueueLiveness == \A i \in 1..MaxOps : (Len(ops) >= i) ~> StartedAndSettled(i)

\* the second operation settled behind an operation that had failed
C24_Witness ==
  /\ Len(ops) >= 2 /\ OpSt(1) = "rejected" /\ StartedAndSettled(2)

\* C25: the work closure of an operation is invoked at most once, and exactly
\* once when createDb succeeded: never before its turn, never again after it
\* failed, and no operation is passed over.
C25_InvokedOnce ==
  \A i \in DOMAIN ops :
    /\ ops[i].calls <= 1
    /\ ops[i].st = "queued" => ops[i].calls = 0
    /\ init = "failed" => ops[i].calls = 0
    /\ (init = "ok" /\ ops[i].st # "queued") =>
          \A j \in 1..i : ops[j].calls = 1

\* an operation failed, was not invoked again, and the one behind it was
\* invoked once
C25_Witness ==
  /\ Len(ops) = 2 /\ init = "ok"
  /\ ops[1].kind = "bad" /\ ops[1].st = "rejected" /\ ops[1].calls = 1
  /\ ops[2].st = "resolved" /\ ops[2].calls = 1

\* C26: once createDb has succeeded, the tail of the queue carries the engine
\* and nothing else: before every operation, submitted before or after createDb
\* settled, and behind the last one, whatever the earlier operations did; every
\* work closure that was invoked was handed the engine.
C26_SameEngine ==
  init = "ok" =>
    /\ \A i \in 1..(Len(ops) + 1) : TailValue(i) = "db"
    /\ \A i \in DOMAIN ops : ops[i].st # "queued" => ops[i].calls = 1

\* a transaction attempt was rejected and the close() behind it was handed the
\* engine
C26_Witness ==
  /\ init = "ok" /\ Len(ops) = 2
  /\ ops[1].kind = "tx" /\ OpSt(1) = "rejected"
  /\ ops[2].kind = "close" /\ ops[2].st = "resolved" /\ eng.closes = 1

\* the queue hands no operation its turn while one is in flight
Blocked == (\E i \in DOMAIN ops : InFlight(i)) => ~ENABLED (StartOp \/ RejectOp)

\* an operation leaves the queue only when every earlier one has settled
TurnStep == \A j \in DOMAIN ops :
  (ops[j].st = "queued" /\ ops'[j].st # "queued") => \A i \in 1..(j - 1) : Settled(OpSt(i))

\* C27: the queue has no preemption and no timeout: while an operation in flight
\* has not settled no later operation starts, whatever else happens meanwhile;
\* an operation that never settles keeps every later one queued for ever.
C27_NoPreemption == []Blocked /\ [][TurnStep]_vars

\* a body has been running across a write while a later operation waits
C27_Witness ==
  /\ Len(ops) = 2 /\ ops[1].kind = "tx" /\ ops[1].st = "running"
  /\ att[ops[1].att].pc = "body" /\ att[ops[1].att].w = 1
  /\ ops[2].st = "queued" /\ ops[2].calls = 0

\* the state of the first Database
sessA == <<init, ops, elog, depth, isClosed, eng, att>>

\* a step of one Database changes nothing of the other
LocalStep == (sessB' # sessB => sessA' = sessA) /\ (sessA' # sessA => sessB' = sessB)

\* whether the head of a queue can take its turn depends on the operations of
\* its own Database alone
OwnTurn ==
  /\ (/\ BHead(sessB) # 0 /\ sessB.init # "pending"
      /\ \A j \in 1..(BHead(sessB) - 1) : Settled(sessB.queue[j].st))
     => ENABLED (\E valid \in BOOLEAN : BStart(valid))
  /\ (/\ QueueHead # 0 /\ init # "pending"
      /\ \A j \in 1..(QueueHead - 1) : Settled(OpSt(j)))
     => ENABLED (StartOp \/ RejectOp)

\* C28: two Database objects are independent: an operation of one that is slow,
\* fails or never settles neither delays nor fails an operation of the other,
\* and each has a transactionDepth of its own.
C28_SessionsIndependent == []OwnTurn /\ [][LocalStep]_vars

\* the first Database has an attempt in flight at depth 1 and an operation
\* waiting behind it, while the second has served a failed statement and a
\* whole transaction attempt and is back at depth 0
C28_Witness ==
  /\ Len(ops) = 2 /\ ops[1].kind = "tx" /\ ops[1].st = "running"
  /\ att[ops[1].att].pc = "body" /\ depth = 1
  /\ ops[2].st = "queued"
  /\ Len(sessB.queue) = 2 /\ sessB.depth = 0
  /\ sessB.queue[1].kind = "exec" /\ sessB.queue[1].st = "rejected"
  /\ sessB.queue[2].kind = "tx" /\ sessB.queue[2].st = "resolved"

\* the top-level attempt of operation i has settled, nothing has been started
\* since, and no db.begin() of the caller preceded it
JustSettled(i) ==
  /\ ops[i].kind = "tx" /\ Settled(OpSt(i))
  /\ \A j \in DOMAIN ops : j > i => ops[j].st = "queued"
  /\ \A j \in DOMAIN ops : j < i => ops[j].kind \notin {"begin", "close"}

\* C29: once a top-level attempt has settled, whichever of its steps failed,
\* transactionDepth is 0 and the engine has no open transaction, so that the
\* BEGIN of a following top-level attempt succeeds.
C29_CleanAfterAttempt ==
  \A i \in DOMAIN ops : JustSettled(i) =>
    /\ depth = 0
    /\ eng.stack = <<>>
    /\ EngineExec(eng, Stmt("BEGIN", "")).ok

\* the operation of the queue that runs the top-level attempt above a
OpOf(a) == CHOOSE i \in DOMAIN ops : ops[i].kind = "tx" /\ ops[i].att = TopOf(a)

\* C30: when a body awaits an operation it submitted on the Database itself,
\* that operation stays queued behind the attempt, the attempt stays in its
\* body and its operation in flight, and every operation submitted later stays
\* queued: in every state from the call on, so none of them ever starts.
C30_OuterCallDeadlock ==
  \A a \in Attempts : att[a].waits # 0 =>
    /\ ops[att[a].waits].st = "queued" /\ ops[att[a].waits].calls = 0
    /\ att[a].pc = "body" /\ InFlight(OpOf(a))
    /\ \A j \in DOMAIN ops : j > OpOf(a) => ops[j].st = "queued"
    /\ Suspended(a) /\ ~ENABLED (StartOp \/ RejectOp)

\* a body that has written is suspended on a db.run() it submitted on the
\* Database
C30_Witness ==
  /\ Len(ops) = 2 /\ ops[1].kind = "tx" /\ ops[2].kind = "run" /\ ops[2].st = "queued"
  /\ \E a \in Attempts : att[a].waits = 2 /\ att[a].w = 1

\* the catch block of attempt a runs in this step with the depth above 0, and
\* the engine refuses the rollback statement of the captured depth
RollbackFails(a) ==
  /\ Catching(a)
  /\ depth > 0
  /\ ~EngineExec(eng, RollbackStmt(att[a].depth)).ok

\* C31: when the rollback statement of the failure path itself fails, the
\* attempt rejects with the error of the rollback statement, not with the value
\* the try block failed with, and transactionDepth is left as it was instead of
\* being reset to the captured depth.
RollbackFailStep(a) == RollbackFails(a) =>
  /\ att'[a].pc = "rejected" /\ att'[a].err = SqlErr /\ ~att'[a].rb
  /\ depth' = depth
  /\ eng' = eng
C31_RollbackFailure == [][\A a \in Attempts : RollbackFailStep(a)]_vars

\* a body ended the transaction itself and then threw: the ROLLBACK failed, the
\* attempt rejected with the engine's error and the depth stayed at 1
C31_Witness ==
  \E a \in Attempts :
    /\ att[a].pc = "rejected" /\ att[a].depth = 0
    /\ att[a].thrown = ErrVal(a) /\ att[a].err = SqlErr /\ ~att[a].rb
    /\ depth = 1 /\ eng.stack = <<>>

\* C32: when the opening statement fails at captured depth 0, fn is not
\* invoked, no COMMIT or ROLLBACK is issued, transactionDepth stays 0 and the
\* attempt rejects with the error of the opening statement; fn is invoked at
\* most once per attempt, and only after the opening statement succeeded.
OpenFailStep(a) ==
  /\ (att[a].pc = "openFailed" /\ att[a].depth = 0 /\ att'[a] # att[a]) =>
       /\ att'[a].pc = "rejected" /\ att'[a].err = att[a].err /\ att[a].err = SqlErr
       /\ ~att'[a].rb /\ att'[a].thrown = NoErr
       /\ eng' = eng
       /\ depth = 0 /\ depth' = 0
  /\ (att[a].pc # "body" /\ att'[a].pc = "body") =>
       /\ att[a].pc = "opening" /\ att[a].err = NoErr
       /\ Innermost(eng.stack, IF att[a].depth = 0 THEN "BEGIN" ELSE att[a].open.arg) # 0
C32_OpenFailure == [][\A a \in Attempts : OpenFailStep(a)]_vars

\* a top-level attempt was rejected by its BEGIN inside the transaction a
\* db.begin() had opened, which is still open
C32_Witness ==
  /\ Len(ops) = 2 /\ ops[1].kind = "begin" /\ ops[1].st = "resolved"
  /\ ops[2].kind = "tx" /\ OpSt(2) = "rejected" /\ OpRes(2) = SqlErr
  /\ att[ops[2].att].thrown = NoErr /\ ~att[ops[2].att].rb
  /\ depth = 0 /\ Len(eng.stack) = 1

\* nothing of the session recovers in a step taken after createDb failed
NoRecoveryStep ==
  init = "failed" =>
    /\ init' = "failed"
    /\ eng' = eng /\ isClosed' = isClosed /\ depth' = depth /\ elog' = elog
    /\ \A i \in DOMAIN ops : ops[i].st = "rejected" => ops'[i] = ops[i]

\* C33: once createDb has failed the session never recovers: the tail carries
\* createDb's error at every position, now and later; every operation, close()
\* included, is rejected with that error or still waits for it, whenever it was
\* submitted; the driver's close is never called and no work closure runs.
C33_NoRecovery ==
  /\ [](init = "failed" =>
         /\ \A i \in 1..(Len(ops) + 1) : TailValue(i) = InitErr
         /\ \A i \in DOMAIN ops :
              /\ ops[i].calls = 0
              /\ OpSt(i) \in {"queued", "rejected"}
              /\ OpSt(i) = "rejected" => OpRes(i) = InitErr
         /\ ~isClosed /\ eng.closes = 0 /\ eng.open)
  /\ [][NoRecoveryStep]_vars

\* a close() and a statement behind it were both rejected with createDb's error
C33_Witness ==
  /\ init = "failed" /\ Len(ops) = 2
  /\ ops[1].kind = "close" /\ ops[1].st = "rejected" /\ ops[1].res = InitErr
  /\ ops[2].kind = "bad" /\ ops[2].st = "rejected" /\ ops[2].res = InitErr
  /\ ~isClosed

\* a transaction attempt takes a step of its own bookkeeping
AttemptStep == \E a \in Attempts :
  /\ att'[a].pc # att[a].pc
  /\ att'[a].pc \in {"body", "resolved", "closeFailed", "rollingBack", "rejected"}

\* C34: only transaction attempts change transactionDepth: a step in which a
\* public method other than transaction() does its work, or in which a body
\* passes BEGIN, COMMIT or ROLLBACK to exec, leaves it unchanged, whether the
\* statement succeeds or fails.
DepthStep ==
  /\ depth' # depth => AttemptStep
  /\ (\E i \in DOMAIN ops : ops[i].kind # "tx" /\ ops'[i] # ops[i]) => depth' = depth
  /\ (eng' # eng /\ att' = att) => depth' = depth
C34_OnlyAttemptsChangeDepth == [][DepthStep]_vars

\* a body has committed its write through exec: the engine has no open
\* transaction and the depth is still 1
C34_Witness ==
  /\ \E a \in Attempts : att[a].pc = "body" /\ att[a].w = 1 /\ att[a].depth = 0
  /\ eng.stack = <<>> /\ eng.committed # {} /\ depth = 1

\* the position of the first close() of the queue, 0 when there is none
FirstClose ==
  LET q == {i \in DOMAIN ops : ops[i].kind = "close"}
  IN IF q = {} THEN 0 ELSE CHOOSE i \in q : \A j \in q : i <= j
ClosingStep ==
  (eng.open /\ ~eng'.open) =>
    /\ \A i \in 1..(FirstClose - 1) : Settled(OpSt(i))
    /\ \A a \in Attempts : att[a].pc \in {"idle", "resolved", "rejected"}
    /\ ops'[FirstClose].st = "resolved"
ReachStep ==
  \A i \in DOMAIN ops :
    ops'[i].calls > ops[i].calls =>
      /\ (FirstClose = 0 \/ i < FirstClose) => eng.open
      /\ (FirstClose # 0 /\ i > FirstClose) =>
            /\ Settled(ops[FirstClose].st)
            /\ ops[FirstClose].st = "resolved" => (~eng.open /\ isClosed)
CloseCalled(i) == ops[i].kind = "close" /\ ops'[i].calls > ops[i].calls
CloseStep ==
  /\ \A i \in DOMAIN ops : CloseCalled(i) =>
        IF isClosed
          THEN eng' = eng /\ isClosed' /\ ops'[i].st = "resolved"
        ELSE /\ eng'.closes = eng.closes + 1
             /\ IF eng.busy
                  THEN /\ ops'[i].st = "rejected" /\ ops'[i].res = SqlErr
                       /\ ~isClosed' /\ eng'.open
                  ELSE /\ ops'[i].st = "resolved"
                       /\ isClosed' /\ ~eng'.open
  /\ isClosed => isClosed'
  /\ (~isClosed /\ isClosed') =>
        /\ \E i \in DOMAIN ops : CloseCalled(i)
        /\ eng.open /\ ~eng'.open /\ eng'.closes = eng.closes + 1
\* C36: when the handle's close() throws, close() rejects with the error and
\* #isClosed stays false, so that the next close() calls the handle's close()
\* again; #isClosed becomes true only in a step in which the handle's close()
\* succeeded, and never returns to false
C36_CloseFailure ==
  /\ [](isClosed <=> ~eng.open)
  /\ [][CloseStep]_vars

\* the first close() found the handle busy and rejected, the second one
\* called the handle's close() again and closed it
C36_Witness ==
  /\ Len(ops) = 2
  /\ ops[1].kind = "close" /\ ops[1].st = "rejected" /\ ops[1].res = SqlErr
  /\ ops[2].kind = "close" /\ ops[2].st = "resolved"
  /\ eng.closes = 2 /\ isClosed /\ ~eng.open

\* prepare() number i has resolved: the caller holds its statement handle
HandleHeld(i) == ops[i].kind = "prepare" /\ ops[i].st = "resolved"
\* a step in which a method of a statement handle is called
HandleCallStep ==
  Len(stcalls') > Len(stcalls) =>
    LET c == stcalls'[Len(stcalls')]
        r == EngineExec(eng, Stmt("INSERT", [by |-> 0 - c.h, n |-> Len(stcalls')]))
    IN /\ HandleHeld(c.h)
       /\ eng' = r.eng /\ c.res = Outcome(r)
       /\ ops' = ops /\ att' = att /\ depth' = depth
\* C37: a call on a prepared statement handle is not ordered by the session
\* queue: it can be made whatever the state of the queue and of the attempts
\* in flight, it executes its statement on the engine in the very step of the
\* call, and it takes no turn in the queue
C37_HandleBypassesQueue ==
  /\ [](\A i \in DOMAIN ops :
          (HandleHeld(i) /\ Len(stcalls) < MaxCalls) => ENABLED StmtRun(i))
  /\ [][HandleCallStep]_vars

\* the first call on the handle executed while a transaction submitted before
\* it was still queued, the second one while that transaction was in flight:
\* its row is in the transaction's frame
C37_Witness ==
  /\ Len(ops) = 2 /\ ops[1].kind = "prepare" /\ ops[2].kind = "tx"
  /\ Len(stcalls) = 2
  /\ stcalls[1].res = NoErr /\ stcalls[1].behind = {2} /\ stcalls[1].inflight = {}
  /\ stcalls[2].res = NoErr /\ stcalls[2].inflight # {}
  /\ ops[2].st = "running" /\ att[ops[2].att].pc = "body"
  /\ [by |-> 0 - 1, n |-> 1] \in eng.committed
  /\ [by |-> 0 - 1, n |-> 2] \in RowsOf(eng.stack)


====
